---------------------------- MODULE Spec2Model ----------------------------
(***************************************************************************)
(* FiFoRe (fish food reminder), src/main.py: a MicroPython main loop that  *)
(* drives a feed indicator LED from a wrapping millisecond tick counter    *)
(* and a feed button.  The model is statement-level: pc names the source   *)
(* line about to execute.                                                  *)
(***************************************************************************)
EXTENDS Integers, Sequences, FiniteSets, TLC

VARIABLES
    feed_delay_hr,       \* main.py:59  configured hours
    feed_delay_min,      \* main.py:60  configured minutes
    feed_delay_ms,       \* main.py:67  the interval in ms
    feeding_required,    \* main.py:77  TRUE = NeedsFeeding, FALSE = Waiting
    last_feeding_ticks,  \* main.py:80  tick counter captured at the last acknowledgment
    feed_indicator,      \* main.py:90  level of the output pin (LED)
    feed_button,         \* main.py:95  level of the input pin (environment)
    current_ticks,       \* main.py:124
    elapsed_ms,          \* main.py:125
    remaining_hours,     \* main.py:130
    remaining_mins,      \* main.py:131
    console,             \* last line printed (main.py:119, 134, 149, 152)
    pc,                  \* source line about to execute, or "exited"
    raised,              \* exception that left the try block (main.py:148, 151)
    exit_code,           \* argument of exit() (main.py:150, 153)
    clock,               \* true milliseconds since power-up (never wraps)
    ticks_origin,        \* value of the tick counter at power-up
    ack_clock,           \* value of clock when last_feeding_ticks was captured
    acks                 \* number of acknowledgments accepted so far

vars == << feed_delay_hr, feed_delay_min, feed_delay_ms, feeding_required,
           last_feeding_ticks, feed_indicator, feed_button, current_ticks,
           elapsed_ms, remaining_hours, remaining_mins, console, pc, raised,
           exit_code, clock, ticks_origin, ack_clock, acks >>

config == << feed_delay_hr, feed_delay_min, feed_delay_ms, ticks_origin >>

locals == << current_ticks, elapsed_ms, remaining_hours, remaining_mins >>

---------------------------------------------------------------------------
(* Program constants                                                       *)

ms_in_one_second == 1000

ms_in_one_minute == 1000 * 60

ms_in_one_hour == 1000 * 60 * 60

\* utime tick counters are taken modulo this period (2^30 on MicroPython).
TICKS_PERIOD == 1073741824

---------------------------------------------------------------------------
(* Bounds of the model                                                     *)

\* Minutes of true time explored beyond MaxAcks whole intervals.
MaxMinutes == 2

\* Number of acknowledgments explored.
MaxAcks == 2

---------------------------------------------------------------------------
(* Pure computations                                                       *)

\* Variant of FeedDelayMs that leaves out the minutes-to-seconds factor.
FeedDelayMs_NoSeconds(hr, min) == ((hr * 60) + min) * 1000

\* Variant of FeedDelayMs that drops the minutes part.
FeedDelayMs_HoursOnly(hr, min) == ((hr * 60) * 60) * 1000

\* main.py:67
FeedDelayMs(hr, min) == (((hr * 60) + min) * 60) * 1000

\* utime.ticks_ms(): the millisecond counter, wrapping at TICKS_PERIOD.
TicksMs(origin, c) == (origin + c) % TICKS_PERIOD

\* Variant of TicksDiff: plain subtraction of the two counter values.
TicksDiff_Naive(a, b) == a - b

\* utime.ticks_diff(a, b): signed difference in the ring of tick values,
\* in -TICKS_PERIOD/2 .. TICKS_PERIOD/2 - 1.
TicksDiff(a, b) ==
    ((a - b + (TICKS_PERIOD \div 2)) % TICKS_PERIOD) - (TICKS_PERIOD \div 2)

\* main.py:130   (// is floor division, as \div)
RemainingHours(hr, elapsed) == hr - (elapsed \div ms_in_one_hour)

\* Variant of RemainingMins without the conditional on the configured minutes.
RemainingMins_Always(min, elapsed, rem_hours) ==
    min - ((elapsed - (rem_hours * ms_in_one_hour)) \div ms_in_one_minute)

\* main.py:131   a - (b // c) if min != 0 else 0
RemainingMins(min, elapsed, rem_hours) ==
    IF min # 0
    THEN min - ((elapsed - (rem_hours * ms_in_one_hour)) \div ms_in_one_minute)
    ELSE 0

\* Variant of FeedingDue that triggers when the interval would expire during
\* the next wait.
FeedingDue_OneQuantumEarly(delay, elapsed) == delay <= elapsed + ms_in_one_minute

\* main.py:137
FeedingDue(delay, elapsed) == delay <= elapsed

---------------------------------------------------------------------------
(* Inputs of the model                                                     *)

\* Configurations <<feed_delay_hr, feed_delay_min>> explored by Spec.
Configs == { <<0, 0>>, <<0, 1>>, <<0, 2>> }

\* Tick counter values at power-up: zero, and shortly before the wrap.
TicksOrigins == { 0, TICKS_PERIOD - (ms_in_one_minute + (ms_in_one_minute \div 2)) }

\* True durations of one lightsleep(ms_in_one_minute): woken early, exact,
\* and woken late (wake-up latency).
SleepDurations == { ms_in_one_minute - 1, ms_in_one_minute, ms_in_one_minute + 1 }

\* True time that may pass while the loop polls the button in NeedsFeeding.
IdleDurations == { ms_in_one_minute }

\* True time explored: MaxAcks whole intervals and MaxMinutes more.
MaxClock == (MaxAcks * feed_delay_ms) + (MaxMinutes * ms_in_one_minute)

\* Lines of the loop body (inside the try block).
LoopPcs == { "L106", "L108", "L110", "L113", "L116", "L119", "L124", "L125",
             "L130", "L131", "L134", "L137", "L139", "L140", "L143", "L146" }

---------------------------------------------------------------------------
(* State after the module-level statements, main.py:51-95                  *)

InitWith(cfgs, origins, buttons) ==
    /\ \E c \in cfgs :
          /\ feed_delay_hr = c[1]
          /\ feed_delay_min = c[2]
          /\ feed_delay_ms = FeedDelayMs(c[1], c[2])
    /\ feeding_required = TRUE
    /\ last_feeding_ticks = 0
    /\ feed_indicator = feeding_required
    /\ feed_button \in buttons
    /\ current_ticks = 0
    /\ elapsed_ms = 0
    /\ remaining_hours = 0
    /\ remaining_mins = 0
    /\ console = << "none" >>
    /\ pc = "L106"
    /\ raised = "none"
    /\ exit_code = 0
    /\ clock = 0
    /\ ticks_origin \in origins
    /\ ack_clock = 0
    /\ acks = 0

Init == InitWith(Configs, TicksOrigins, BOOLEAN)

---------------------------------------------------------------------------
(* The loop body, one action per statement                                 *)

\* Variant of L106 that lets a pressed button into the acknowledgment branch
\* whatever the state is.
L106_ButtonFirst ==
    /\ pc = "L106"
    /\ pc' = IF feeding_required \/ feed_button THEN "L108" ELSE "L124"
    /\ UNCHANGED << config, feeding_required, last_feeding_ticks, feed_indicator,
                    feed_button, locals, console, raised, exit_code, clock,
                    ack_clock, acks >>

\* main.py:104-106   while True: if feeding_required:
L106 ==
    /\ pc = "L106"
    /\ pc' = IF feeding_required THEN "L108" ELSE "L124"
    /\ UNCHANGED << config, feeding_required, last_feeding_ticks, feed_indicator,
                    feed_button, locals, console, raised, exit_code, clock,
                    ack_clock, acks >>

\* Variant of L108 that waits one quantum when the button is not pressed.
L108_SleepWhenIdle ==
    /\ pc = "L108"
    /\ feed_button => acks < MaxAcks
    /\ pc' = IF feed_button THEN "L110" ELSE "L146"
    /\ UNCHANGED << config, feeding_required, last_feeding_ticks, feed_indicator,
                    feed_button, locals, console, raised, exit_code, clock,
                    ack_clock, acks >>

\* main.py:108   if feed_button.value():
L108 ==
    /\ pc = "L108"
    /\ feed_button => acks < MaxAcks
    /\ pc' = IF feed_button THEN "L110" ELSE "L106"
    /\ UNCHANGED << config, feeding_required, last_feeding_ticks, feed_indicator,
                    feed_button, locals, console, raised, exit_code, clock,
                    ack_clock, acks >>

\* main.py:110   feed_indicator.off()
L110 ==
    /\ pc = "L110"
    /\ feed_indicator' = FALSE
    /\ pc' = "L113"
    /\ UNCHANGED << config, feeding_required, last_feeding_ticks, feed_button,
                    locals, console, raised, exit_code, clock, ack_clock, acks >>

\* Variant of L113 that reuses the counter value read by the last Waiting
\* tick instead of reading the counter.
L113_StaleTicks ==
    /\ pc = "L113"
    /\ last_feeding_ticks' = current_ticks
    /\ ack_clock' = clock
    /\ acks' = acks + 1
    /\ pc' = "L116"
    /\ UNCHANGED << config, feeding_required, feed_indicator, feed_button,
                    locals, console, raised, exit_code, clock >>

\* main.py:113   last_feeding_ticks = ticks_ms()
L113 ==
    /\ pc = "L113"
    /\ last_feeding_ticks' = TicksMs(ticks_origin, clock)
    /\ ack_clock' = clock
    /\ acks' = acks + 1
    /\ pc' = "L116"
    /\ UNCHANGED << config, feeding_required, feed_indicator, feed_button,
                    locals, console, raised, exit_code, clock >>

\* main.py:116   feeding_required = False
L116 ==
    /\ pc = "L116"
    /\ feeding_required' = FALSE
    /\ pc' = "L119"
    /\ UNCHANGED << config, last_feeding_ticks, feed_indicator, feed_button,
                    locals, console, raised, exit_code, clock, ack_clock, acks >>

\* main.py:119   print("The fish have been fed")
L119 ==
    /\ pc = "L119"
    /\ console' = << "fed" >>
    /\ pc' = "L106"
    /\ UNCHANGED << config, feeding_required, last_feeding_ticks, feed_indicator,
                    feed_button, locals, raised, exit_code, clock, ack_clock, acks >>

\* main.py:124   current_ticks = ticks_ms()
L124 ==
    /\ pc = "L124"
    /\ current_ticks' = TicksMs(ticks_origin, clock)
    /\ pc' = "L125"
    /\ UNCHANGED << config, feeding_required, last_feeding_ticks, feed_indicator,
                    feed_button, elapsed_ms, remaining_hours, remaining_mins,
                    console, raised, exit_code, clock, ack_clock, acks >>

\* main.py:125   elapsed_ms = ticks_diff(current_ticks, last_feeding_ticks)
L125 ==
    /\ pc = "L125"
    /\ elapsed_ms' = TicksDiff(current_ticks, last_feeding_ticks)
    /\ pc' = "L130"
    /\ UNCHANGED << config, feeding_required, last_feeding_ticks, feed_indicator,
                    feed_button, current_ticks, remaining_hours, remaining_mins,
                    console, raised, exit_code, clock, ack_clock, acks >>

\* main.py:130   remaining_hours = feed_delay_hr - (elapsed_ms // ms_in_one_hour)
L130 ==
    /\ pc = "L130"
    /\ remaining_hours' = RemainingHours(feed_delay_hr, elapsed_ms)
    /\ pc' = "L131"
    /\ UNCHANGED << config, feeding_required, last_feeding_ticks, feed_indicator,
                    feed_button, current_ticks, elapsed_ms, remaining_mins,
                    console, raised, exit_code, clock, ack_clock, acks >>

\* main.py:131   remaining_mins = ... if feed_delay_min != 0 else 0
L131 ==
    /\ pc = "L131"
    /\ remaining_mins' = RemainingMins(feed_delay_min, elapsed_ms, remaining_hours)
    /\ pc' = "L134"
    /\ UNCHANGED << config, feeding_required, last_feeding_ticks, feed_indicator,
                    feed_button, current_ticks, elapsed_ms, remaining_hours,
                    console, raised, exit_code, clock, ack_clock, acks >>

\* main.py:134   print(f"{remaining_hours} hour(s) {remaining_mins} minutes(s) ...")
L134 ==
    /\ pc = "L134"
    /\ console' = << "remaining", remaining_hours, remaining_mins >>
    /\ pc' = "L137"
    /\ UNCHANGED << config, feeding_required, last_feeding_ticks, feed_indicator,
                    feed_button, locals, raised, exit_code, clock, ack_clock, acks >>

\* main.py:137   if feed_delay_ms <= elapsed_ms:
L137 ==
    /\ pc = "L137"
    /\ pc' = IF FeedingDue(feed_delay_ms, elapsed_ms) THEN "L139" ELSE "L146"
    /\ UNCHANGED << config, feeding_required, last_feeding_ticks, feed_indicator,
                    feed_button, locals, console, raised, exit_code, clock,
                    ack_clock, acks >>

\* main.py:139   feeding_required = True
L139 ==
    /\ pc = "L139"
    /\ feeding_required' = TRUE
    /\ pc' = "L140"
    /\ UNCHANGED << config, last_feeding_ticks, feed_indicator, feed_button,
                    locals, console, raised, exit_code, clock, ack_clock, acks >>

\* Variant of L140 that leaves the pin as it is.
L140_NoOn ==
    /\ pc = "L140"
    /\ pc' = "L143"
    /\ UNCHANGED << config, feeding_required, last_feeding_ticks, feed_indicator,
                    feed_button, locals, console, raised, exit_code, clock,
                    ack_clock, acks >>

\* main.py:140   feed_indicator.on()
L140 ==
    /\ pc = "L140"
    /\ feed_indicator' = TRUE
    /\ pc' = "L143"
    /\ UNCHANGED << config, feeding_required, last_feeding_ticks, feed_button,
                    locals, console, raised, exit_code, clock, ack_clock, acks >>

\* Variant of L143 without the continue: control falls through to line 146.
L143_FallThrough ==
    /\ pc = "L143"
    /\ pc' = "L146"
    /\ UNCHANGED << config, feeding_required, last_feeding_ticks, feed_indicator,
                    feed_button, locals, console, raised, exit_code, clock,
                    ack_clock, acks >>

\* main.py:143   continue
L143 ==
    /\ pc = "L143"
    /\ pc' = "L106"
    /\ UNCHANGED << config, feeding_required, last_feeding_ticks, feed_indicator,
                    feed_button, locals, console, raised, exit_code, clock,
                    ack_clock, acks >>

\* Variant of L146 that asks for two quanta: the wait takes twice as long.
L146_TwoQuanta(d) ==
    /\ pc = "L146"
    /\ clock + (2 * d) <= MaxClock
    /\ clock' = clock + (2 * d)
    /\ pc' = "L106"
    /\ UNCHANGED << config, feeding_required, last_feeding_ticks, feed_indicator,
                    feed_button, locals, console, raised, exit_code, ack_clock,
                    acks >>

\* main.py:146   lightsleep(ms_in_one_minute); d is the true time the wait took
L146(d) ==
    /\ pc = "L146"
    /\ clock + d <= MaxClock
    /\ clock' = clock + d
    /\ pc' = "L106"
    /\ UNCHANGED << config, feeding_required, last_feeding_ticks, feed_indicator,
                    feed_button, locals, console, raised, exit_code, ack_clock,
                    acks >>

---------------------------------------------------------------------------
(* Leaving the loop, main.py:148-153                                       *)

\* A KeyboardInterrupt arrives while a statement of the loop body executes.
Interrupt ==
    /\ pc \in LoopPcs
    /\ raised' = "KeyboardInterrupt"
    /\ pc' = "L149"
    /\ UNCHANGED << config, feeding_required, last_feeding_ticks, feed_indicator,
                    feed_button, locals, console, exit_code, clock, ack_clock,
                    acks >>

\* A statement of the loop body raises an Exception.
Fault ==
    /\ pc \in LoopPcs
    /\ raised' = "Exception"
    /\ pc' = "L152"
    /\ UNCHANGED << config, feeding_required, last_feeding_ticks, feed_indicator,
                    feed_button, locals, console, exit_code, clock, ack_clock,
                    acks >>

\* main.py:149   print("Keyboard interrupt detected, exiting.")
L149 ==
    /\ pc = "L149"
    /\ console' = << "interrupt" >>
    /\ pc' = "L150"
    /\ UNCHANGED << config, feeding_required, last_feeding_ticks, feed_indicator,
                    feed_button, locals, raised, exit_code, clock, ack_clock, acks >>

\* main.py:150   exit(0)
L150 ==
    /\ pc = "L150"
    /\ exit_code' = 0
    /\ pc' = "exited"
    /\ UNCHANGED << config, feeding_required, last_feeding_ticks, feed_indicator,
                    feed_button, locals, console, raised, clock, ack_clock, acks >>

\* main.py:152   print("Unkown exception occurred, details:...")
L152 ==
    /\ pc = "L152"
    /\ console' = << "exception" >>
    /\ pc' = "L153"
    /\ UNCHANGED << config, feeding_required, last_feeding_ticks, feed_indicator,
                    feed_button, locals, raised, exit_code, clock, ack_clock, acks >>

\* Variant of L153 that reports success.
L153_ExitZero ==
    /\ pc = "L153"
    /\ exit_code' = 0
    /\ pc' = "exited"
    /\ UNCHANGED << config, feeding_required, last_feeding_ticks, feed_indicator,
                    feed_button, locals, console, raised, clock, ack_clock, acks >>

\* main.py:153   exit(-1)
L153 ==
    /\ pc = "L153"
    /\ exit_code' = -1
    /\ pc' = "exited"
    /\ UNCHANGED << config, feeding_required, last_feeding_ticks, feed_indicator,
                    feed_button, locals, console, raised, clock, ack_clock, acks >>

---------------------------------------------------------------------------
(* Environment                                                             *)

\* The operator presses or releases the button (pin 1 changes level).  The
\* program samples the pin at line 108 only, so a change anywhere in a tick
\* is observed exactly as a change before the tick starts.
ButtonChange ==
    /\ pc = "L106"
    /\ feed_button' = ~feed_button
    /\ UNCHANGED << config, feeding_required, last_feeding_ticks, feed_indicator,
                    locals, console, pc, raised, exit_code, clock, ack_clock,
                    acks >>

\* True time passes while the loop polls the button without sleeping.
TimePasses(d) ==
    /\ pc = "L106"
    /\ feeding_required
    /\ clock + d <= MaxClock
    /\ clock' = clock + d
    /\ UNCHANGED << config, feeding_required, last_feeding_ticks, feed_indicator,
                    feed_button, locals, console, pc, raised, exit_code,
                    ack_clock, acks >>

---------------------------------------------------------------------------
(* Specifications                                                          *)

AckBranch == L108 \/ L110 \/ L113 \/ L116 \/ L119

WaitBranch == L124 \/ L125 \/ L130 \/ L131 \/ L134 \/ L137 \/ L139 \/ L140 \/ L143

Handlers == L149 \/ L150 \/ L152 \/ L153

Next ==
    \/ L106
    \/ AckBranch
    \/ WaitBranch
    \/ \E d \in SleepDurations : L146(d)
    \/ Interrupt
    \/ Fault
    \/ Handlers
    \/ ButtonChange
    \/ \E d \in IdleDurations : TimePasses(d)

Spec == Init /\ [][Next]_vars

---------------------------------------------------------------------------
(* The program of Spec in an environment where no lightsleep lasts longer  *)
(* than the quantum asked for.                                             *)

QuantumSleepDurations == { d \in SleepDurations : d <= ms_in_one_minute }

NextQuantum ==
    \/ L106
    \/ AckBranch
    \/ WaitBranch
    \/ \E d \in QuantumSleepDurations : L146(d)
    \/ Interrupt
    \/ Fault
    \/ Handlers
    \/ ButtonChange
    \/ \E d \in IdleDurations : TimePasses(d)

SpecQuantum == Init /\ [][NextQuantum]_vars

---------------------------------------------------------------------------
(* Long intervals: the operator keeps the button pressed, no exception is  *)
(* raised, and a lightsleep lasts half or all of the quantum, so that the  *)
(* reachable clock values stay few over hundreds of hours.                 *)

LongConfigs == { <<1, 0>>, <<1, 30>>, <<150, 0>> }

LongSleepDurations == { ms_in_one_minute \div 2, ms_in_one_minute }

InitLong == InitWith(LongConfigs, {0}, {TRUE})

NextLong ==
    \/ L106
    \/ AckBranch
    \/ WaitBranch
    \/ \E d \in LongSleepDurations : L146(d)

SpecLong == InitLong /\ [][NextLong]_vars

---------------------------------------------------------------------------
(* The computations of one Waiting tick (main.py:124-146) applied to       *)
(* chosen inputs: a configuration, a last_feeding_ticks value anywhere in  *)
(* the counter's range, and a true duration since the acknowledgment.      *)

FnConfigs == { <<0, 0>>, <<0, 1>>, <<0, 30>>, <<1, 0>>, <<1, 15>>, <<6, 0>>,
               <<6, 30>>, <<149, 0>> }

FnLasts == { 0, 1, ms_in_one_minute,
             (TICKS_PERIOD \div 2) - 1, TICKS_PERIOD \div 2,
             TICKS_PERIOD - ms_in_one_hour, TICKS_PERIOD - ms_in_one_minute,
             TICKS_PERIOD - 1 }

\* True durations up to the interval plus one wait quantum.
FnDurations(delay) ==
    { d \in { 0, 1, ms_in_one_minute - 1, ms_in_one_minute, delay \div 2,
              delay - (15 * ms_in_one_minute), delay - ms_in_one_minute,
              delay - 1, delay, delay + 1, delay + ms_in_one_minute } :
        0 <= d /\ d <= delay + ms_in_one_minute }

InitFn ==
    /\ \E c \in FnConfigs :
          /\ feed_delay_hr = c[1]
          /\ feed_delay_min = c[2]
          /\ feed_delay_ms = FeedDelayMs(c[1], c[2])
    /\ feeding_required = FALSE
    /\ feed_indicator = FALSE
    /\ feed_button \in BOOLEAN
    /\ ticks_origin = 0
    /\ last_feeding_ticks \in FnLasts
    /\ ack_clock = last_feeding_ticks
    /\ clock \in { ack_clock + d : d \in FnDurations(feed_delay_ms) }
    /\ current_ticks = 0
    /\ elapsed_ms = 0
    /\ remaining_hours = 0
    /\ remaining_mins = 0
    /\ console = << "fed" >>
    /\ pc = "L124"
    /\ raised = "none"
    /\ exit_code = 0
    /\ acks = 1

NextFn == WaitBranch

SpecFn == InitFn /\ [][NextFn]_vars

---------------------------------------------------------------------------
(* Properties                                                              *)

\* Lines at which elapsed_ms holds the value computed in the current tick.
AfterL125 == { "L130", "L131", "L134", "L137", "L139", "L140", "L143", "L146" }

\* True time since the acknowledgment that set last_feeding_ticks.
TrueElapsed == clock - ack_clock

\* C1: at every tick boundary (the loop is about to start an iteration, the
\* first one included) the indicator is ON iff feeding_required is TRUE.
C1_IndicatorAtTickBoundary ==
    pc = "L106" => (feed_indicator = feeding_required)

\* A tick boundary after an acknowledgment and a later trigger.
C1_Witness ==
    /\ pc = "L106"
    /\ acks = 1
    /\ feeding_required
    /\ feed_indicator
    /\ TrueElapsed >= feed_delay_ms
    /\ feed_delay_ms > 0

\* C2: between any two statements of the loop body the indicator is ON iff
\* feeding_required is TRUE.
C2_NoDivergenceInsideTick ==
    pc \in LoopPcs => (feed_indicator = feeding_required)

\* C3: while Waiting, no step accepts an acknowledgment whatever the button
\* level is: last_feeding_ticks keeps its value, the button is not sampled
\* and the acknowledgment branch is not entered.
C3_WaitingIgnoresButton ==
    [][ (~feeding_required /\ pc \in LoopPcs)
          => /\ last_feeding_ticks' = last_feeding_ticks
             /\ acks' = acks
             /\ pc' \notin { "L108", "L110", "L113", "L116" }
             /\ (feed_indicator' # feed_indicator => pc = "L140") ]_vars

\* A Waiting tick that ran its threshold test with the button pressed.
C3_Witness ==
    /\ pc = "L146"
    /\ ~feeding_required
    /\ feed_button
    /\ console[1] = "remaining"

\* C4: for every interval, a Waiting tick triggers iff the time since the
\* acknowledgment, taken from the clock in that tick, has reached the
\* interval: it stays Waiting at now = T + Interval - 1 and before, and
\* becomes NeedsFeeding at now = T + Interval and after.
C4_ThresholdTransition ==
    /\ pc = "L139" => TrueElapsed >= feed_delay_ms
    /\ pc = "L146" => TrueElapsed < feed_delay_ms

\* C5: the lightsleep of line 146 is never reached by a tick that performed
\* the trigger.
C5_NoWaitAfterTrigger ==
    pc = "L146" => (~feeding_required /\ ~feed_indicator)

\* The end of a trigger tick: the loop is back at its head right after
\* lines 139-143.
C5_Witness ==
    /\ pc = "L106"
    /\ feeding_required
    /\ feed_indicator
    /\ console[1] = "remaining"
    /\ FeedingDue(feed_delay_ms, elapsed_ms)

C7_ReactivatesOnceDue ==
    (pc = "L146" /\ ~feeding_required) => TrueElapsed < feed_delay_ms

\* C8: with a non-zero minutes part and elapsed <= Interval, the reported
\* hours and minutes decompose the whole minutes of Interval - elapsed, with
\* 0 <= minutes < 60 (6h30m and elapsed 6h15m give 0 hours 15 minutes).
C8_RemainingDecomposition ==
    ( /\ pc = "L137"
      /\ console[1] = "remaining"
      /\ feed_delay_min # 0
      /\ elapsed_ms <= feed_delay_ms )
    => /\ (console[2] * 60) + console[3]
            = (feed_delay_ms - elapsed_ms) \div ms_in_one_minute
       /\ 0 <= console[3]
       /\ console[3] < 60

\* C9: at power-up the state is NeedsFeeding with the indicator ON for every
\* configuration; with Interval = 1 hour and the acknowledgment at t = 0 the
\* tick records last_feeding_ticks = 0 and turns the indicator OFF, every
\* tick with now < 3,600,000 ms stays Waiting, and a tick with
\* now >= 3,600,000 ms triggers.
C9_PowerUpAndOneHour ==
    /\ (acks = 0 /\ pc = "L106") => (feeding_required /\ feed_indicator)
    /\ (feed_delay_hr = 1 /\ feed_delay_min = 0 /\ acks = 1)
       => /\ ack_clock = 0
          /\ pc = "L119" => ( /\ ~feeding_required
                              /\ ~feed_indicator
                              /\ last_feeding_ticks = 0 )
          /\ (pc \in { "L106", "L124" } /\ clock < 3600000)
                => (~feeding_required /\ ~feed_indicator)
          /\ pc \in { "L139", "L140", "L143" } => clock >= 3600000
          /\ pc = "L146" => clock < 3600000

\* The tick at now = 3,600,000 ms has turned the indicator ON.
C9_Witness ==
    /\ feed_delay_hr = 1
    /\ feed_delay_min = 0
    /\ acks = 1
    /\ last_feeding_ticks = 0
    /\ pc = "L143"
    /\ clock = 3600000
    /\ feeding_required
    /\ feed_indicator

\* C10: once an exception has left the loop no statement of the loop runs
\* again and the controller's state is left as it was; the loop is left only
\* by a KeyboardInterrupt or an Exception; the process exits with code 0
\* after a KeyboardInterrupt and with a non-zero code after an Exception.
C10_FatalExit ==
    [][ /\ pc \notin LoopPcs
           => /\ pc' \notin LoopPcs
              /\ UNCHANGED << feeding_required, feed_indicator,
                              last_feeding_ticks, locals, clock, raised >>
        /\ (pc \in LoopPcs /\ pc' \notin LoopPcs)
           => /\ raised = "none"
              /\ raised' \in { "KeyboardInterrupt", "Exception" }
        /\ (pc # "exited" /\ pc' = "exited")
           => /\ raised \in { "KeyboardInterrupt", "Exception" }
              /\ (raised = "KeyboardInterrupt") => exit_code' = 0
              /\ (raised = "Exception") => exit_code' # 0 ]_vars

\* The process has exited after an Exception raised in a Waiting tick.
C10_Witness ==
    /\ pc = "exited"
    /\ raised = "Exception"
    /\ exit_code # 0
    /\ ~feeding_required
    /\ console = << "exception" >>

\* C11: a fault or an operator interrupt leaves the indicator/state
\* invariant intact: whatever line of the loop body it arrives at, the
\* process stops in a state where the indicator is ON iff feeding_required
\* is TRUE, and the handlers leave the output pin at its last value.
C11_StopKeepsInvariant ==
    [][ /\ pc' = "exited" => (feed_indicator' = feeding_required')
        /\ pc \notin LoopPcs => feed_indicator' = feed_indicator ]_vars

\* C12: a tick that starts in NeedsFeeding samples the button once, at line
\* 108, and nowhere else.  With the level active the tick runs lines 110-119
\* and ends Waiting, indicator OFF, last_feeding_ticks equal to the counter
\* value of that tick, and "fed" printed; with the level inactive it ends
\* with state, indicator and last_feeding_ticks unchanged.  Only the level
\* counts, whatever the button was at earlier ticks.
C12_NeedsFeedingTick ==
    [][ /\ (pc = "L106" /\ feeding_required /\ pc' \in LoopPcs /\ pc' # pc)
           => pc' = "L108"
        /\ (pc = "L108" /\ pc' \in LoopPcs)
           => /\ pc' = IF feed_button THEN "L110" ELSE "L106"
              /\ UNCHANGED << feeding_required, feed_indicator,
                              last_feeding_ticks >>
        /\ (pc \in { "L110", "L113", "L116", "L119" } /\ pc' \in LoopPcs)
           => pc' \in { "L113", "L116", "L119", "L106" }
        /\ (pc = "L119" /\ pc' = "L106")
           => /\ ~feeding_required'
              /\ ~feed_indicator'
              /\ last_feeding_ticks' = TicksMs(ticks_origin, clock)
              /\ ack_clock' = clock
              /\ console' = << "fed" >> ]_vars

\* A second acknowledgment accepted on the first tick after a trigger, the
\* button still pressed and no time passed since the trigger tick.
C12_Witness ==
    /\ pc = "L106"
    /\ acks = 2
    /\ ~feeding_required
    /\ ~feed_indicator
    /\ feed_button
    /\ console = << "fed" >>
    /\ feed_delay_ms > 0
    /\ current_ticks = last_feeding_ticks
    /\ FeedingDue(feed_delay_ms, elapsed_ms)

\* C13: the lightsleep of line 146 is entered only from the threshold test
\* of a tick that started in Waiting and found elapsed < Interval; a tick
\* that starts in NeedsFeeding goes straight to the button poll of line 108
\* and never to line 146.
C13_WaitOnlyInWaiting ==
    [][ /\ (pc' = "L146" /\ pc # "L146")
           => /\ pc = "L137"
              /\ ~feeding_required
              /\ elapsed_ms < feed_delay_ms
              /\ elapsed_ms = TicksDiff(TicksMs(ticks_origin, clock),
                                        last_feeding_ticks)
        /\ (pc \in { "L108", "L110", "L113", "L116", "L119" })
           => pc' # "L146"
        /\ (pc = "L106" /\ feeding_required /\ pc' \in LoopPcs /\ pc' # pc)
           => (pc' = "L108" /\ clock' = clock) ]_vars

\* A pending reminder polled with the button released, after a trigger: the
\* tick is at line 108 and will return to the loop head without waiting.
C13_Witness ==
    /\ pc = "L108"
    /\ feeding_required
    /\ feed_indicator
    /\ ~feed_button
    /\ acks = 1
    /\ FeedingDue(feed_delay_ms, elapsed_ms)
    /\ console[1] = "remaining"

\* C14: the interval is (hours * 60 + minutes) * 60 * 1000 ms from start-up
\* on, and no step of the loop, in either state or on either transition,
\* changes it or the configured hours and minutes.
C14_IntervalFixed ==
    [][ /\ feed_delay_ms = (feed_delay_hr * 3600000) + (feed_delay_min * 60000)
        /\ feed_delay_ms' = feed_delay_ms
        /\ feed_delay_hr' = feed_delay_hr
        /\ feed_delay_min' = feed_delay_min ]_vars

\* 1 h 30 min is still 5,400,000 ms after two acknowledgments and a trigger.
C14_Witness ==
    /\ feed_delay_hr = 1
    /\ feed_delay_min = 30
    /\ feed_delay_ms = 5400000
    /\ acks = 2
    /\ ~feeding_required
    /\ pc = "L146"

\* C15: with a zero minutes part configured, the minutes printed by a
\* Waiting tick are 0 whatever the elapsed time is; and the tick triggers
\* iff feed_delay_ms <= elapsed_ms, whatever values were printed.
C15_MinutesSuppressed ==
    /\ ( /\ pc \in { "L137", "L139", "L146" }
         /\ console[1] = "remaining"
         /\ feed_delay_min = 0 )
       => (console[3] = 0 /\ remaining_mins = 0)
    /\ pc = "L139" => feed_delay_ms <= elapsed_ms
    /\ pc = "L146" => elapsed_ms < feed_delay_ms

\* Whole hours configured, 0 minutes printed, while the time remaining has a
\* non-zero minutes part.
C15_Witness ==
    /\ pc = "L146"
    /\ feed_delay_hr = 6
    /\ feed_delay_min = 0
    /\ console[1] = "remaining"
    /\ console[3] = 0
    /\ ((feed_delay_ms - elapsed_ms) \div ms_in_one_minute) % 60 # 0

\* C16: the reminder is never early: once an acknowledgment has been
\* recorded, the indicator is ON only if at least the interval of true time
\* has passed since that acknowledgment, also when the tick counter wrapped
\* in between.
C16_NeverEarly ==
    (acks >= 1 /\ feed_indicator) => TrueElapsed >= feed_delay_ms

\* The indicator turned ON by a tick whose counter value had wrapped past
\* last_feeding_ticks.
C16_Witness ==
    /\ pc = "L143"
    /\ feed_indicator
    /\ feeding_required
    /\ acks >= 1
    /\ feed_delay_ms > 0
    /\ current_ticks < last_feeding_ticks
    /\ TrueElapsed >= feed_delay_ms

\* C17: when no wait lasts longer than the 60,000 ms quantum and the rest
\* of a tick takes no time, a tick that triggers (Interval > 0) observes
\* Interval <= elapsed < Interval + 60,000 ms, and that much true time has
\* passed since the acknowledgment.
C17_LateByLessThanQuantum ==
    (pc \in { "L139", "L140", "L143" } /\ feed_delay_ms > 0)
    => /\ feed_delay_ms <= elapsed_ms
       /\ elapsed_ms < feed_delay_ms + ms_in_one_minute
       /\ elapsed_ms = TrueElapsed

\* A trigger 59,999 ms after the interval expired: the previous tick ran
\* 1 ms before the interval was over.
C17_Witness ==
    /\ pc = "L139"
    /\ feed_delay_ms > 0
    /\ elapsed_ms = feed_delay_ms + (ms_in_one_minute - 1)

============================================================================
